---------------------------- MODULE Spec2Model ----------------------------
(***************************************************************************)
(* Redcode vocabulary of corewars-core (load_file/types.rs) and the        *)
(* enum_string! macro that generates it (util.rs).                         *)
(*                                                                         *)
(* A Rust string is a sequence of one-character strings, so that case,     *)
(* whitespace and length are things a lookup can get wrong.  An enum       *)
(* variant is the string of its identifier, qualified by the name of its   *)
(* enum where that matters.                                                *)
(***************************************************************************)
EXTENDS Integers, Sequences, FiniteSets

VARIABLES op, args, ret

vars == <<op, args, ret>>

\* ------------------------------------------------------------- bounds
\* longest string generated over Alphabet as an input of from_str
MaxStrLen == 2
\* literals -MaxLit .. MaxLit are given to Value::Literal
MaxLit == 3
\* widest field width a caller gives to the formatter
MaxWidth == 4
\* largest precision a caller gives to the formatter
MaxPrec == 1

\* ------------------------------------------------ enum_string! tables
\* one `$variant => $value,` line of an enum_string! invocation
Entry(variant, value) == [variant |-> variant, value |-> value]

\* Cmp given the string of Seq
OpcodeTable_CmpAsSeq ==
    << Entry("Dat", <<"D","A","T">>), Entry("Mov", <<"M","O","V">>),
       Entry("Add", <<"A","D","D">>), Entry("Sub", <<"S","U","B">>),
       Entry("Mul", <<"M","U","L">>), Entry("Div", <<"D","I","V">>),
       Entry("Mod", <<"M","O","D">>), Entry("Jmp", <<"J","M","P">>),
       Entry("Jmz", <<"J","M","Z">>), Entry("Jmn", <<"J","M","N">>),
       Entry("Djn", <<"D","J","N">>), Entry("Cmp", <<"S","E","Q">>),
       Entry("Seq", <<"S","E","Q">>), Entry("Sne", <<"S","N","E">>),
       Entry("Slt", <<"S","L","T">>), Entry("Spl", <<"S","P","L">>),
       Entry("Nop", <<"N","O","P">>) >>

OpcodeTable ==
    << Entry("Dat", <<"D","A","T">>), Entry("Mov", <<"M","O","V">>),
       Entry("Add", <<"A","D","D">>), Entry("Sub", <<"S","U","B">>),
       Entry("Mul", <<"M","U","L">>), Entry("Div", <<"D","I","V">>),
       Entry("Mod", <<"M","O","D">>), Entry("Jmp", <<"J","M","P">>),
       Entry("Jmz", <<"J","M","Z">>), Entry("Jmn", <<"J","M","N">>),
       Entry("Djn", <<"D","J","N">>), Entry("Cmp", <<"C","M","P">>),
       Entry("Seq", <<"S","E","Q">>), Entry("Sne", <<"S","N","E">>),
       Entry("Slt", <<"S","L","T">>), Entry("Spl", <<"S","P","L">>),
       Entry("Nop", <<"N","O","P">>) >>

PseudoOpcodeTable ==
    << Entry("Org", <<"O","R","G">>), Entry("End", <<"E","N","D">>),
       Entry("Equ", <<"E","Q","U">>), Entry("For", <<"F","O","R">>) >>

ModifierTable ==
    << Entry("A", <<"A">>), Entry("B", <<"B">>), Entry("AB", <<"A","B">>),
       Entry("BA", <<"B","A">>), Entry("F", <<"F">>), Entry("X", <<"X">>),
       Entry("I", <<"I">>) >>

AddressModeTable ==
    << Entry("Immediate", <<"#">>), Entry("Direct", <<"$">>),
       Entry("IndirectA", <<"*">>), Entry("IndirectB", <<"@">>),
       Entry("PreDecIndirectA", <<"{">>), Entry("PreDecIndirectB", <<"<">>),
       Entry("PostIncIndirectA", <<"}">>), Entry("PostIncIndirectB", <<">">>) >>

\* the enums generated by enum_string! in types.rs
EnumNames == {"Opcode", "PseudoOpcode", "Modifier", "AddressMode"}

Table(name) ==
    CASE name = "Opcode"       -> OpcodeTable
      [] name = "PseudoOpcode" -> PseudoOpcodeTable
      [] name = "Modifier"     -> ModifierTable
      [] name = "AddressMode"  -> AddressModeTable

\* stringify!($name)
stringify(name) ==
    CASE name = "Opcode"       -> <<"O","p","c","o","d","e">>
      [] name = "PseudoOpcode" -> <<"P","s","e","u","d","o","O","p","c","o","d","e">>
      [] name = "Modifier"     -> <<"M","o","d","i","f","i","e","r">>
      [] name = "AddressMode"  -> <<"A","d","d","r","e","s","s","M","o","d","e">>

\* `$vis enum $name { $($variant,)* }`
Variants(name) == { Table(name)[i].variant : i \in 1..Len(Table(name)) }

\* ------------------------------------------------- generated methods
\* ASCII letters, and str::to_ascii_lowercase
UpperCase == <<"A","B","C","D","E","F","G","H","I","J","K","L","M",
               "N","O","P","Q","R","S","T","U","V","W","X","Y","Z">>
LowerCase == <<"a","b","c","d","e","f","g","h","i","j","k","l","m",
               "n","o","p","q","r","s","t","u","v","w","x","y","z">>

LowerChar(c) ==
    IF \E i \in 1..Len(UpperCase) : UpperCase[i] = c
    THEN LowerCase[CHOOSE i \in 1..Len(UpperCase) : UpperCase[i] = c]
    ELSE c

ToLower(s) == [ i \in 1..Len(s) |-> LowerChar(s[i]) ]

\* the arm of a `match` that is taken: the first one whose pattern matches
FirstArm(arms) == CHOOSE i \in arms : \A j \in arms : i <= j

\* impl ToString: match *self { $(Self::$variant => $value,)* }.to_owned()
to_string(name, self) ==
    LET tbl == Table(name)
        arm == FirstArm({ i \in 1..Len(tbl) : tbl[i].variant = self })
    IN  tbl[arm].value

Ok(variant) == [tag |-> "Ok", val |-> variant, msg |-> <<>>]
Err(message) == [tag |-> "Err", val |-> "", msg |-> message]

\* format!("No variant '{}' found for enum '{}'", input_str, stringify!($name))
NoVariantMessage(input_str, name) ==
    <<"N","o"," ","v","a","r","i","a","n","t"," ","'">> \o input_str
        \o <<"'"," ","f","o","u","n","d"," ","f","o","r"," ","e","n","u","m"," ","'">>
        \o stringify(name) \o <<"'">>

\* the patterns matched without regard to ASCII case
from_str_IgnoreCase(name, input_str) ==
    LET tbl  == Table(name)
        arms == { i \in 1..Len(tbl) : ToLower(tbl[i].value) = ToLower(input_str) }
    IN  IF arms = {}
        THEN Err(NoVariantMessage(input_str, name))
        ELSE Ok(tbl[FirstArm(arms)].variant)

\* impl FromStr: match input_str { $($value => Ok(Self::$variant),)* _ => Err(..) }
from_str(name, input_str) ==
    LET tbl  == Table(name)
        arms == { i \in 1..Len(tbl) : tbl[i].value = input_str }
    IN  IF arms = {}
        THEN Err(NoVariantMessage(input_str, name))
        ELSE Ok(tbl[FirstArm(arms)].variant)

\* VALUES without the last variant
VALUES_DropLast(name) == [ i \in 1..(Len(Table(name)) - 1) |-> Table(name)[i].variant ]

\* const VALUES: &[$name] = &[$($name::$variant,)*];
VALUES(name) == [ i \in 1..Len(Table(name)) |-> Table(name)[i].variant ]

\* ------------------------------------------------ Modifier inference
\* the panic of unreachable!()
Unreachable == "unreachable!()"

\* the inner match without its Slt arm
default_88_to_94_NoSltArm(opcode, a_mode, b_mode) ==
    CASE opcode = "Dat" -> "F"
      [] opcode \in {"Jmp", "Jmz", "Jmn", "Djn", "Spl", "Nop"} -> "B"
      [] OTHER ->
            IF a_mode = "Immediate" THEN "AB"
            ELSE IF b_mode = "Immediate" THEN "B"
            ELSE CASE opcode \in {"Mov", "Cmp", "Seq", "Sne"} -> "I"
                   [] opcode \in {"Add", "Sub", "Mul", "Div", "Mod"} -> "F"
                   [] OTHER -> Unreachable

\* the B-field test made before the A-field test
default_88_to_94_BFirst(opcode, a_mode, b_mode) ==
    CASE opcode = "Dat" -> "F"
      [] opcode \in {"Jmp", "Jmz", "Jmn", "Djn", "Spl", "Nop"} -> "B"
      [] OTHER ->
            IF b_mode = "Immediate" THEN "B"
            ELSE IF a_mode = "Immediate" THEN "AB"
            ELSE CASE opcode \in {"Mov", "Cmp", "Seq", "Sne"} -> "I"
                   [] opcode = "Slt" -> "B"
                   [] opcode \in {"Add", "Sub", "Mul", "Div", "Mod"} -> "F"
                   [] OTHER -> Unreachable

\* the B-field test left to the arithmetic opcodes and Slt alone
default_88_to_94_IBeforeB(opcode, a_mode, b_mode) ==
    CASE opcode = "Dat" -> "F"
      [] opcode \in {"Jmp", "Jmz", "Jmn", "Djn", "Spl", "Nop"} -> "B"
      [] OTHER ->
            IF a_mode = "Immediate" THEN "AB"
            ELSE IF opcode \in {"Mov", "Cmp", "Seq", "Sne"} THEN "I"
            ELSE IF b_mode = "Immediate" THEN "B"
            ELSE CASE opcode = "Slt" -> "B"
                   [] opcode \in {"Add", "Sub", "Mul", "Div", "Mod"} -> "F"
                   [] OTHER -> Unreachable

\* Slt in the arm of the arithmetic opcodes
default_88_to_94_SltArith(opcode, a_mode, b_mode) ==
    CASE opcode = "Dat" -> "F"
      [] opcode \in {"Jmp", "Jmz", "Jmn", "Djn", "Spl", "Nop"} -> "B"
      [] OTHER ->
            IF a_mode = "Immediate" THEN "AB"
            ELSE IF b_mode = "Immediate" THEN "B"
            ELSE CASE opcode \in {"Mov", "Cmp", "Seq", "Sne"} -> "I"
                   [] opcode \in {"Add", "Sub", "Mul", "Div", "Mod", "Slt"} -> "F"
                   [] OTHER -> Unreachable

\* Nop missing from the arm of the jumps
default_88_to_94_NoNop(opcode, a_mode, b_mode) ==
    CASE opcode = "Dat" -> "F"
      [] opcode \in {"Jmp", "Jmz", "Jmn", "Djn", "Spl"} -> "B"
      [] OTHER ->
            IF a_mode = "Immediate" THEN "AB"
            ELSE IF b_mode = "Immediate" THEN "B"
            ELSE CASE opcode \in {"Mov", "Cmp", "Seq", "Sne"} -> "I"
                   [] opcode = "Slt" -> "B"
                   [] opcode \in {"Add", "Sub", "Mul", "Div", "Mod"} -> "F"
                   [] OTHER -> Unreachable

\* Dat in the arm of the arithmetic opcodes instead of an arm of its own
default_88_to_94_DatArith(opcode, a_mode, b_mode) ==
    CASE opcode \in {"Jmp", "Jmz", "Jmn", "Djn", "Spl", "Nop"} -> "B"
      [] OTHER ->
            IF a_mode = "Immediate" THEN "AB"
            ELSE IF b_mode = "Immediate" THEN "B"
            ELSE CASE opcode \in {"Mov", "Cmp", "Seq", "Sne"} -> "I"
                   [] opcode = "Slt" -> "B"
                   [] opcode \in {"Add", "Sub", "Mul", "Div", "Mod", "Dat"} -> "F"
                   [] OTHER -> Unreachable

\* Modifier::default_88_to_94
default_88_to_94(opcode, a_mode, b_mode) ==
    CASE opcode = "Dat" -> "F"
      [] opcode \in {"Jmp", "Jmz", "Jmn", "Djn", "Spl", "Nop"} -> "B"
      [] OTHER ->
            IF a_mode = "Immediate" THEN "AB"
            ELSE IF b_mode = "Immediate" THEN "B"
            ELSE CASE opcode \in {"Mov", "Cmp", "Seq", "Sne"} -> "I"
                   [] opcode = "Slt" -> "B"
                   [] opcode \in {"Add", "Sub", "Mul", "Div", "Mod"} -> "F"
                   [] OTHER -> Unreachable

\* ------------------------------------------------------------- Value
\* Value::Label(String) and Value::Literal(Offset)
Label(name) == [tag |-> "Label", name |-> name, offset |-> 0]
Literal(offset) == [tag |-> "Literal", name |-> <<>>, offset |-> offset]

\* Option<usize>, as the formatter's width and precision
None == [some |-> FALSE, v |-> 0]
Some(n) == [some |-> TRUE, v |-> n]

DecimalDigit == <<"0", "1", "2", "3", "4", "5", "6", "7", "8", "9">>

\* the decimal digits of n >= 0, most significant first
RECURSIVE Digits(_)
Digits(n) ==
    IF n < 10 THEN << DecimalDigit[n + 1] >>
    ELSE Digits(n \div 10) \o << DecimalDigit[(n % 10) + 1] >>

\* Offset::to_string (Offset = i32)
offset_to_string(n) == IF n < 0 THEN <<"-">> \o Digits(-n) ELSE Digits(n)

\* n copies of the fill character
RECURSIVE Fill(_, _)
Fill(c, n) == IF n <= 0 THEN <<>> ELSE <<c>> \o Fill(c, n - 1)

\* pad with the alignment of a number, Right, where the caller gives none
pad_RightDefault(f, s) ==
    LET cut == IF f.precision.some /\ f.precision.v < Len(s)
               THEN SubSeq(s, 1, f.precision.v) ELSE s
        padding == f.width.v - Len(cut)
        align == IF f.align = "Unknown" THEN "Right" ELSE f.align
        pre == CASE align = "Left"   -> 0
                 [] align = "Right"  -> padding
                 [] align = "Center" -> padding \div 2
    IN  IF ~f.width.some \/ Len(cut) >= f.width.v
        THEN cut
        ELSE Fill(f.fill, pre) \o cut \o Fill(f.fill, padding - pre)

\* f.pad(s): truncate to the precision, then pad to the width; a string's
\* alignment is Left where the caller gives none
pad(f, s) ==
    LET cut == IF f.precision.some /\ f.precision.v < Len(s)
               THEN SubSeq(s, 1, f.precision.v) ELSE s
        padding == f.width.v - Len(cut)
        align == IF f.align = "Unknown" THEN "Left" ELSE f.align
        pre == CASE align = "Left"   -> 0
                 [] align = "Right"  -> padding
                 [] align = "Center" -> padding \div 2
    IN  IF ~f.width.some \/ Len(cut) >= f.width.v
        THEN cut
        ELSE Fill(f.fill, pre) \o cut \o Fill(f.fill, padding - pre)

\* impl fmt::Display for Value
fmt(self, f) ==
    LET value_string == IF self.tag = "Label" THEN self.name
                        ELSE offset_to_string(self.offset)
    IN  pad(f, value_string)

\* ------------------------------------------------------------ inputs
\* the canonical strings of all four enums
CanonicalStrings ==
    UNION { { Table(name)[i].value : i \in 1..Len(Table(name)) } : name \in EnumNames }

\* a canonical string changed in case, by surrounding whitespace, or in length
NearMisses(s) ==
    { ToLower(s), <<" ">> \o s, s \o <<" ">>, s \o <<"\n">>, s \o s,
      SubSeq(s, 1, Len(s) - 1) }

\* "Should fail", the string of tests::from_string
ShouldFail == <<"S","h","o","u","l","d"," ","f","a","i","l">>

Alphabet == {"A", "B", "a", "#", " "}

RECURSIVE StringsOfLength(_)
StringsOfLength(n) ==
    IF n = 0 THEN { <<>> }
    ELSE { <<c>> \o s : c \in Alphabet, s \in StringsOfLength(n - 1) }

\* the strings given to from_str
InputStrings ==
    CanonicalStrings
      \cup UNION { NearMisses(s) : s \in CanonicalStrings }
      \cup { ShouldFail }
      \cup UNION { StringsOfLength(n) : n \in 0..MaxStrLen }

MaxOffset == 2147483647

\* the names and offsets given to Value::Label and Value::Literal
LabelNames ==
    { <<"s","o","m","e","_","l","a","b","e","l">>, <<"a">>, <<"x","1">> }
LiteralOffsets ==
    (-MaxLit..MaxLit) \cup {-5, 10, -10, 99, -100, 123, MaxOffset, -MaxOffset}

\* the format specifications a caller writes: {}, {:5}, {:>5}, {:*^5.1}, ...
Formatters ==
    [ width : {None} \cup { Some(w) : w \in 0..MaxWidth },
      precision : {None} \cup { Some(p) : p \in 0..MaxPrec },
      align : {"Unknown", "Left", "Right", "Center"},
      fill : {" ", "*"} ]

\* --------------------------------------------------------- behaviour
NoArgs == [enum |-> ""]

Init ==
    /\ op = "start"
    /\ args = NoArgs
    /\ ret = ""

\* a call Modifier::default_88_to_94(opcode, a_mode, b_mode)
CallDefault88To94 ==
    \E opcode \in Variants("Opcode") :
      \E a_mode \in Variants("AddressMode"), b_mode \in Variants("AddressMode") :
        /\ op' = "default_88_to_94"
        /\ args' = [opcode |-> opcode, a_mode |-> a_mode, b_mode |-> b_mode]
        /\ ret' = default_88_to_94(opcode, a_mode, b_mode)

NextModifier ==
    \/ CallDefault88To94

SpecModifier == Init /\ [][NextModifier]_vars

\* a call v.to_string() on a variant of one of the enums
CallToString ==
    \E name \in EnumNames : \E v \in Variants(name) :
        /\ op' = "to_string"
        /\ args' = [enum |-> name, self |-> v, input_str |-> <<>>]
        /\ ret' = to_string(name, v)

\* a call name::from_str(input_str)
CallFromStr ==
    \E name \in EnumNames : \E s \in InputStrings :
        /\ op' = "from_str"
        /\ args' = [enum |-> name, self |-> "", input_str |-> s]
        /\ ret' = from_str(name, s)

\* name::from_str(&v.to_string()): the string just produced is parsed back
CallFromStrOfToString ==
    /\ op = "to_string"
    /\ op' = "from_str(to_string)"
    /\ args' = [args EXCEPT !.input_str = ret]
    /\ ret' = from_str(args.enum, ret)

\* a call name::iter_values(): a slice iterator at the start of VALUES
CallIterValues ==
    \E name \in EnumNames :
        /\ op' = "iter_values"
        /\ args' = [enum |-> name, self |-> "", input_str |-> <<>>]
        /\ ret' = [pos |-> 0, yielded |-> <<>>, done |-> FALSE]

\* Iterator::next on the iterator: the next element of VALUES, or None
IterNext ==
    /\ op \in {"iter_values", "next"}
    /\ ~ret.done
    /\ op' = "next"
    /\ args' = args
    /\ ret' = IF ret.pos < Len(VALUES(args.enum))
              THEN [pos |-> ret.pos + 1,
                    yielded |-> Append(ret.yielded, VALUES(args.enum)[ret.pos + 1]),
                    done |-> FALSE]
              ELSE [ret EXCEPT !.done = TRUE]

NextEnum ==
    \/ CallToString
    \/ CallFromStr
    \/ CallFromStrOfToString
    \/ CallIterValues
    \/ IterNext

SpecEnum == Init /\ [][NextEnum]_vars

\* Value::Label(name)
NewLabel ==
    \E name \in LabelNames :
        /\ op' = "Value"
        /\ args' = [self |-> Label(name), f |-> [width |-> None, precision |-> None,
                                                  align |-> "Unknown", fill |-> " "]]
        /\ ret' = <<>>

\* Value::Literal(offset)
NewLiteral ==
    \E offset \in LiteralOffsets :
        /\ op' = "Value"
        /\ args' = [self |-> Literal(offset), f |-> [width |-> None, precision |-> None,
                                                      align |-> "Unknown", fill |-> " "]]
        /\ ret' = <<>>

\* format!("{:..}", value): Display::fmt of the value under the caller's formatter
CallFmt ==
    /\ op \in {"Value", "fmt"}
    /\ \E f \in Formatters :
        /\ op' = "fmt"
        /\ args' = [args EXCEPT !.f = f]
        /\ ret' = fmt(args.self, f)

NextValue ==
    \/ NewLabel
    \/ NewLiteral
    \/ CallFmt

SpecValue == Init /\ [][NextValue]_vars

\* ------------------------------------------------------------ claims
\* the opcodes of the third arm of default_88_to_94
TenOpcodes == {"Mov", "Cmp", "Seq", "Sne", "Add", "Sub", "Mul", "Div", "Mod", "Slt"}

\* C1: default_88_to_94 is total: each of the 17 x 8 x 8 = 1088 combinations
\* of (opcode, a_mode, b_mode) yields a Modifier, and the unreachable!() arm
\* of the inner match is never taken.
C1_Total ==
    /\ Cardinality(Variants("Opcode")) = 17
    /\ Cardinality(Variants("AddressMode")) = 8
    /\ op = "default_88_to_94" =>
          /\ args.opcode \in Variants("Opcode")
          /\ ret \in Variants("Modifier")
          /\ ret # Unreachable

C1_Witness ==
    /\ op = "default_88_to_94"
    /\ args = [opcode |-> "Slt", a_mode |-> "Direct", b_mode |-> "IndirectB"]
    /\ ret = "B"

\* C2: for the ten opcodes of the third arm and a_mode = Immediate the result
\* is AB whatever b_mode is, b_mode = Immediate included.
C2_ImmediateA ==
    (op = "default_88_to_94" /\ args.opcode \in TenOpcodes /\ args.a_mode = "Immediate")
        => ret = "AB"

C2_Witness ==
    /\ op = "default_88_to_94"
    /\ args = [opcode |-> "Mov", a_mode |-> "Immediate", b_mode |-> "Immediate"]
    /\ ret = "AB"

\* C3: for the ten opcodes of the third arm, a_mode # Immediate and
\* b_mode = Immediate, the result is B (Mov, Cmp, Seq and Sne included).
C3_ImmediateB ==
    (/\ op = "default_88_to_94"
     /\ args.opcode \in TenOpcodes
     /\ args.a_mode # "Immediate"
     /\ args.b_mode = "Immediate")
        => ret = "B"

C3_Witness ==
    /\ op = "default_88_to_94"
    /\ args = [opcode |-> "Cmp", a_mode |-> "Direct", b_mode |-> "Immediate"]
    /\ ret = "B"

\* C4: with neither mode Immediate the result is I for Mov, Cmp, Seq, Sne,
\* B for Slt and F for Add, Sub, Mul, Div, Mod.
C4_NoImmediate ==
    (/\ op = "default_88_to_94"
     /\ args.a_mode # "Immediate"
     /\ args.b_mode # "Immediate")
        => /\ args.opcode \in {"Mov", "Cmp", "Seq", "Sne"} => ret = "I"
           /\ args.opcode = "Slt" => ret = "B"
           /\ args.opcode \in {"Add", "Sub", "Mul", "Div", "Mod"} => ret = "F"

C4_Witness ==
    /\ op = "default_88_to_94"
    /\ args = [opcode |-> "Slt", a_mode |-> "PostIncIndirectA", b_mode |-> "Direct"]
    /\ ret = "B"

\* C5: for Jmp, Jmz, Jmn, Djn, Spl and Nop the result is B for all 8 x 8
\* mode combinations, Immediate modes included.
C5_Jumps ==
    (op = "default_88_to_94" /\ args.opcode \in {"Jmp", "Jmz", "Jmn", "Djn", "Spl", "Nop"})
        => ret = "B"

C5_Witness ==
    /\ op = "default_88_to_94"
    /\ args = [opcode |-> "Nop", a_mode |-> "Immediate", b_mode |-> "Immediate"]
    /\ ret = "B"

\* C6: for Dat the result is F for all 8 x 8 mode combinations, Immediate
\* modes included.
C6_Dat ==
    (op = "default_88_to_94" /\ args.opcode = "Dat") => ret = "F"

C6_Witness ==
    /\ op = "default_88_to_94"
    /\ args = [opcode |-> "Dat", a_mode |-> "Immediate", b_mode |-> "Direct"]
    /\ ret = "F"

\* the canonical strings of one enum
Canonical(name) == { Table(name)[i].value : i \in 1..Len(Table(name)) }

\* sub occurs in s
Contains(s, sub) ==
    \E i \in 0..(Len(s) - Len(sub)) : SubSeq(s, i + 1, i + Len(sub)) = sub

Quoted(s) == <<"'">> \o s \o <<"'">>

\* C7: round trip: from_str(to_string(v)) is Ok(v) for every variant v of the
\* four enums; the canonical strings of an enum are pairwise distinct.
C7_RoundTrip ==
    /\ \A name \in EnumNames : \A i, j \in 1..Len(Table(name)) :
          i # j => Table(name)[i].value # Table(name)[j].value
    /\ op = "from_str(to_string)" => ret = Ok(args.self)

C7_Witness ==
    /\ op = "from_str(to_string)"
    /\ args.enum = "Opcode"
    /\ args.self = "Seq"
    /\ args.input_str = <<"S","E","Q">>
    /\ ret.tag = "Ok"
    /\ ret.val = "Seq"

\* C8: from_str of a string that is not exactly a canonical string of the
\* enum (a change of case or surrounding whitespace included) is an Err, not
\* a variant, and the error names the string and the enum.
C8_UnknownString ==
    (op = "from_str" /\ args.input_str \notin Canonical(args.enum))
        => /\ ret.tag = "Err"
           /\ ret.val \notin Variants(args.enum)
           /\ Contains(ret.msg, Quoted(args.input_str))
           /\ Contains(ret.msg, Quoted(stringify(args.enum)))

C8_Witness ==
    /\ op = "from_str"
    /\ args.enum = "Opcode"
    /\ args.input_str = <<" ","D","A","T">>
    /\ ret.tag = "Err"

\* C9: iter_values() yields every declared variant once, in declaration
\* order: 17 for Opcode, 4 for PseudoOpcode, 8 for AddressMode, 7 for
\* Modifier; every iterator created, also after an earlier one, does so.
C9_Enumeration ==
    op \in {"iter_values", "next"} =>
        LET declared ==
              CASE args.enum = "Opcode" ->
                     <<"Dat", "Mov", "Add", "Sub", "Mul", "Div", "Mod", "Jmp", "Jmz",
                       "Jmn", "Djn", "Cmp", "Seq", "Sne", "Slt", "Spl", "Nop">>
                [] args.enum = "PseudoOpcode" -> <<"Org", "End", "Equ", "For">>
                [] args.enum = "AddressMode" ->
                     <<"Immediate", "Direct", "IndirectA", "IndirectB",
                       "PreDecIndirectA", "PreDecIndirectB",
                       "PostIncIndirectA", "PostIncIndirectB">>
                [] args.enum = "Modifier" -> <<"A", "B", "AB", "BA", "F", "X", "I">>
            count ==
              CASE args.enum = "Opcode" -> 17
                [] args.enum = "PseudoOpcode" -> 4
                [] args.enum = "AddressMode" -> 8
                [] args.enum = "Modifier" -> 7
        IN  /\ Len(ret.yielded) <= count
            /\ ret.yielded = SubSeq(declared, 1, Len(ret.yielded))
            /\ \A i, j \in 1..Len(ret.yielded) : i # j => ret.yielded[i] # ret.yielded[j]
            /\ ret.done =>
                 /\ Len(ret.yielded) = count
                 /\ ret.yielded = declared
                 /\ { ret.yielded[i] : i \in 1..count } = Variants(args.enum)

C9_Witness ==
    /\ op = "next"
    /\ args.enum = "Opcode"
    /\ ret.done
    /\ Len(ret.yielded) = 17
    /\ ret.yielded[1] = "Dat"
    /\ ret.yielded[17] = "Nop"

\* the number a string of decimal digits denotes
RECURSIVE DigitsValue(_)
DigitsValue(s) ==
    IF s = <<>> THEN 0
    ELSE 10 * DigitsValue(SubSeq(s, 1, Len(s) - 1))
           + (CHOOSE d \in 0..9 : DecimalDigit[d + 1] = s[Len(s)])

\* s is the signed decimal representation of n
IsDecimalOf(s, n) ==
    LET digits == IF n < 0 THEN Tail(s) ELSE s
    IN  /\ Len(s) >= 1
        /\ n < 0 => s[1] = "-"
        /\ Len(digits) >= 1
        /\ \A i \in 1..Len(digits) : \E d \in 1..10 : DecimalDigit[d] = digits[i]
        /\ Len(digits) > 1 => digits[1] # "0"
        /\ DigitsValue(digits) = IF n < 0 THEN -n ELSE n

\* s is the text of the value: a label's name, a literal's signed decimal
IsContentOf(s, self) ==
    IF self.tag = "Label" THEN s = self.name ELSE IsDecimalOf(s, self.offset)

\* out is the text of the value between pre and post fill characters
IsPadded(out, self, fill, pre, post) ==
    /\ Len(out) >= pre + post
    /\ \A i \in 1..pre : out[i] = fill
    /\ \A i \in (Len(out) - post + 1)..Len(out) : out[i] = fill
    /\ IsContentOf(SubSeq(out, pre + 1, Len(out) - post), self)

\* the fill characters a width asks for around a text of a length
Padding(width, length) == IF width.some /\ width.v > length THEN width.v - length ELSE 0

\* C10 as stated: with a field width w (and nothing else) the text of the
\* value is padded on the left with spaces to w characters, and is unchanged
\* when it is w characters or more.
C10_LeftPadded ==
    (/\ op = "fmt"
     /\ args.f.width.some
     /\ ~args.f.precision.some
     /\ args.f.align = "Unknown"
     /\ args.f.fill = " ")
        => \E pre \in 0..args.f.width.v :
              /\ IsPadded(ret, args.self, " ", pre, 0)
              /\ pre = Padding(args.f.width, Len(ret) - pre)

\* C10 amended: without a precision, the text of the value (a label's name,
\* a literal's signed decimal) is unchanged when no width is given or it is
\* w characters or more; otherwise it is padded to exactly w characters with
\* the caller's fill character (a space by default), placed after the text
\* when the caller gives no alignment or Left, before it for Right, and on
\* both sides (the smaller half first) for Center.
C10_Padded ==
    (op = "fmt" /\ ~args.f.precision.some)
        => \E pre, post \in 0..(IF args.f.width.some THEN args.f.width.v ELSE 0) :
              /\ IsPadded(ret, args.self, args.f.fill, pre, post)
              /\ pre + post = Padding(args.f.width, Len(ret) - pre - post)
              /\ args.f.align \in {"Unknown", "Left"} => pre = 0
              /\ args.f.align = "Right" => post = 0
              /\ args.f.align = "Center" => pre = (pre + post) \div 2

C10_Witness ==
    /\ op = "fmt"
    /\ args.self = Literal(-5)
    /\ args.f = [width |-> Some(4), precision |-> None, align |-> "Unknown", fill |-> " "]
    /\ ret = <<"-", "5", " ", " ">>

=============================================================================
